---- MODULE Spec2Model ----
(***************************************************************************)
(* A model of reddec/editstruct: the byte-splicing struct editor           *)
(* (internal/editor/editor.go), its import manager, and the per-file       *)
(* driver (processFile / main).                                            *)
(*                                                                         *)
(* Text is modelled at byte level: a Go string or []byte is a sequence of  *)
(* one-character strings, so offsets, lengths and slices mean what they    *)
(* mean in the code.  token.Pos is offset + 1 (the file set's base is 1)   *)
(* and 0 is token.NoPos.                                                   *)
(***************************************************************************)
EXTENDS Integers, Sequences, FiniteSets, TLC

VARIABLES
    ed,        \* the Editor: [file, src, imports |-> [existing]]
    orig,      \* the bytes ParseFile read (e.src before any call)
    hist,      \* the calls made on the Editor so far, oldest first
    crashed,   \* TRUE once a call on the Editor panicked (slice bounds out of range)
    disk,      \* main: the directory's files, by position in findGoFiles' sequence
    cfg,       \* main: the loaded configuration ([]config.TypeConfig)
    idx,       \* main: index of the next file of the loop at main.go:38
    pc,        \* main: "run", "done" (loop finished) or "exit1" (os.Exit(1))
    stderr,    \* main: indexes of the files whose failure was reported
    log        \* main: per file, what processFile did with it

vars == <<ed, orig, hist, crashed, disk, cfg, idx, pc, stderr, log>>
edVars == <<ed, orig, hist, crashed>>
mainVars == <<disk, cfg, idx, pc, stderr, log>>

-----------------------------------------------------------------------------
(* Bounds of the model.                                                    *)

\* Number of EditStruct / AddImports calls made on one Editor.
MaxCalls == 2
\* Number of files in the directory main walks.
MaxFiles == 3
\* Nesting depth of the type texts drawn from the type syntax.
MaxDepth == 2

-----------------------------------------------------------------------------
(* Byte strings.                                                           *)

\* The backquote byte (SANY cannot lex a backquote inside a string).
BQ == "BQ"
DQ == "\""
NL == "\n"
TAB == "\t"
SP == " "

RECURSIVE Cat(_)
\* Concatenation of a sequence of byte strings.
Cat(ss) ==
    IF ss = <<>> THEN <<>> ELSE Head(ss) \o Cat(Tail(ss))

RECURSIVE Join(_, _)
\* strings.Join(ss, sep)
Join(ss, sep) ==
    IF ss = <<>> THEN <<>>
    ELSE IF Len(ss) = 1 THEN ss[1]
    ELSE ss[1] \o sep \o Join(Tail(ss), sep)

\* Go's s[lo:hi] on 0-based offsets.
Slice(s, lo, hi) == SubSeq(s, lo + 1, hi)

\* pat occurs in s at 0-based offset i.
HasAt(s, i, pat) ==
    /\ i + Len(pat) <= Len(s)
    /\ \A k \in 1..Len(pat) : s[i + k] = pat[k]

\* Number of occurrences of pat in s (countSubstring of the tests; the
\* patterns used here cannot overlap themselves).
CountSub(s, pat) ==
    Cardinality({i \in 0..Len(s) : HasAt(s, i, pat)})

\* strconv-style quoting of an import path: the BasicLit's Value.
Quote(p) == <<DQ>> \o p \o <<DQ>>

\* strings.Trim(v, `"`) for a value with no inner quote.
RECURSIVE TrimQuotes(_)
TrimQuotes(v) ==
    IF v # <<>> /\ Head(v) = DQ THEN TrimQuotes(Tail(v))
    ELSE IF v # <<>> /\ v[Len(v)] = DQ THEN TrimQuotes(SubSeq(v, 1, Len(v) - 1))
    ELSE v

RECURSIVE LastSegment(_)
\* parts := strings.Split(path, "/"); parts[len(parts)-1]
LastSegment(p) ==
    IF \E i \in 1..Len(p) : p[i] = "/"
    THEN LastSegment(SubSeq(p, (CHOOSE i \in 1..Len(p) : p[i] = "/") + 1, Len(p)))
    ELSE p

kwPackage ==
    <<"p", "a", "c", "k", "a", "g", "e", " ", "p", "\n">>
kwImport ==
    <<"i", "m", "p", "o", "r", "t", " ">>
kwType ==
    <<"t", "y", "p", "e", " ">>
kwStruct ==
    <<" ", "s", "t", "r", "u", "c", "t", " ", "{", "\n">>
kwFunc ==
    <<"f", "u", "n", "c", " ", "F", "(", ")", " ", "{", "}", "\n">>
kwConst ==
    <<"c", "o", "n", "s", "t", " ", "X", " ", "=", " ", "1", "\n">>
kwMap ==
    <<"m", "a", "p">>
kwComment ==
    <<"/", "/", " ", "c">>
n_Example ==
    <<"E", "x", "a", "m", "p", "l", "e">>
n_Order ==
    <<"O", "r", "d", "e", "r">>
n_Missing ==
    <<"M", "i", "s", "s", "i", "n", "g">>
n_ID ==
    <<"I", "D">>
n_Total ==
    <<"T", "o", "t", "a", "l">>
n_Name ==
    <<"N", "a", "m", "e">>
n_Base ==
    <<"B", "a", "s", "e">>
n_M ==
    <<"M">>
n_Nope ==
    <<"N", "o", "p", "e">>
n_A ==
    <<"A">>
n_B ==
    <<"B">>
n_Arr ==
    <<"A", "r", "r">>
t_int ==
    <<"i", "n", "t">>
t_int64 ==
    <<"i", "n", "t", "6", "4">>
t_string ==
    <<"s", "t", "r", "i", "n", "g">>
t_uint64 ==
    <<"u", "i", "n", "t", "6", "4">>
t_time ==
    <<"t", "i", "m", "e">>
t_Time ==
    <<"T", "i", "m", "e">>
t_timeTime ==
    <<"t", "i", "m", "e", ".", "T", "i", "m", "e">>
t_mapStringInt ==
    <<"m", "a", "p", "[", "s", "t", "r", "i", "n", "g", "]", "i", "n", "t">>
t_ptrInt64 ==
    <<"*", "i", "n", "t", "6", "4">>
t_sliceInt ==
    <<"[", "]", "i", "n", "t">>
p_fmt ==
    <<"f", "m", "t">>
p_xfmt ==
    <<"x", "/", "f", "m", "t">>
p_time ==
    <<"t", "i", "m", "e">>
p_os ==
    <<"o", "s">>
p_xuuid ==
    <<"x", "/", "u", "u", "i", "d">>
a_u ==
    <<"u">>
tagJ ==
    <<BQ, "j", BQ>>

-----------------------------------------------------------------------------
(* Type expressions (go/ast) and their source text.                        *)

Ident(n) == [kind |-> "Ident", Name |-> n]
SelectorExpr(x, sel) == [kind |-> "SelectorExpr", X |-> x, Sel |-> sel]
StarExpr(x) == [kind |-> "StarExpr", X |-> x]
\* len = <<>> is a slice ([]T, ArrayType.Len == nil), otherwise an array [len]T.
ArrayType(len, elt) == [kind |-> "ArrayType", Len |-> len, Elt |-> elt]
MapType(k, v) == [kind |-> "MapType", Key |-> k, Value |-> v]
\* Every other expression kind (func, chan, interface, inline struct).
OtherType(text) == [kind |-> "Other", Text |-> text]

RECURSIVE TypeSrc(_, _)
\* The bytes of a type expression in a source file; with sp, written with
\* blanks inside the brackets of a map type (`map[ string ]int`).
TypeSrc(t, sp) ==
    CASE t.kind = "Ident" -> t.Name
      [] t.kind = "SelectorExpr" -> TypeSrc(t.X, sp) \o <<".">> \o t.Sel
      [] t.kind = "StarExpr" -> <<"*">> \o TypeSrc(t.X, sp)
      [] t.kind = "ArrayType" -> <<"[">> \o t.Len \o <<"]">> \o TypeSrc(t.Elt, sp)
      [] t.kind = "MapType" ->
            kwMap \o <<"[">> \o (IF sp THEN <<SP>> ELSE <<>>) \o TypeSrc(t.Key, sp)
                  \o (IF sp THEN <<SP>> ELSE <<>>) \o <<"]">> \o TypeSrc(t.Value, sp)
      [] OTHER -> t.Text

\* An expression node with its source positions (Pos(), End()).
At(t, pos, end) ==
    [k \in DOMAIN t \cup {"Pos", "End"} |->
        IF k = "Pos" THEN pos ELSE IF k = "End" THEN end ELSE t[k]]

-----------------------------------------------------------------------------
(* Source files.  A file is described by its declarations; FileText writes *)
(* the description out as bytes and ParseFile gives the syntax tree that   *)
(* go/parser builds for those bytes, every position an offset into them.   *)

\* An import spec: name = <<>> is an unnamed import (ImportSpec.Name == nil).
ImportSpecD(name, path) == [name |-> name, path |-> path]
ImportD(block, specs) == [d |-> "import", block |-> block, specs |-> specs]
FieldD(names, type, sp, tag, comment) ==
    [names |-> names, type |-> type, sp |-> sp, tag |-> tag, comment |-> comment]
StructD(name, fields) == [d |-> "struct", name |-> name, fields |-> fields]
TypeD(name, type) == [d |-> "type", name |-> name, type |-> type]
FuncD == [d |-> "func"]
ConstD == [d |-> "const"]

\* `"path"` or `name "path"`, as written in the file.
ImportSpecText(s) ==
    (IF s.name = <<>> THEN <<>> ELSE s.name \o <<SP>>) \o Quote(s.path)

FieldNamesText(f) ==
    IF f.names = <<>> THEN <<>> ELSE Join(f.names, <<",", SP>>) \o <<SP>>

FieldCommentText(f) ==
    IF f.comment THEN <<TAB>> \o kwComment \o <<NL>> ELSE <<>>

\* One field of a struct, with the comment line above it and its tag.
FieldText(f) ==
    FieldCommentText(f) \o <<TAB>> \o FieldNamesText(f) \o TypeSrc(f.type, f.sp)
        \o (IF f.tag = <<>> THEN <<>> ELSE <<SP>> \o f.tag) \o <<NL>>

\* Offset of the field's type expression within FieldText(f).
FieldTypeOff(f) == Len(FieldCommentText(f)) + 1 + Len(FieldNamesText(f))

StructHeadText(d) == kwType \o d.name \o kwStruct

DeclText(d) ==
    CASE d.d = "import" /\ ~d.block ->
            kwImport \o ImportSpecText(d.specs[1]) \o <<NL>>
      [] d.d = "import" /\ d.block ->
            kwImport \o <<"(", NL>>
                \o Cat([i \in 1..Len(d.specs) |->
                            <<TAB>> \o ImportSpecText(d.specs[i]) \o <<NL>>])
                \o <<")", NL>>
      [] d.d = "struct" ->
            StructHeadText(d)
                \o Cat([i \in 1..Len(d.fields) |-> FieldText(d.fields[i])])
                \o <<"}", NL>>
      [] d.d = "type" -> kwType \o d.name \o <<SP>> \o TypeSrc(d.type, FALSE) \o <<NL>>
      [] d.d = "func" -> kwFunc
      [] d.d = "const" -> kwConst

\* The file's bytes: the package clause, then each declaration after a blank line.
FileText(decls) ==
    kwPackage \o Cat([i \in 1..Len(decls) |-> <<NL>> \o DeclText(decls[i])])

\* 0-based offset of declaration i in FileText(decls).
DeclOff(decls, i) ==
    Len(kwPackage \o Cat([j \in 1..(i - 1) |-> <<NL>> \o DeclText(decls[j])])) + 1

\* 0-based offset of field k of the struct declared at offset off.
FieldOff(d, off, k) ==
    off + Len(StructHeadText(d)) + Len(Cat([j \in 1..(k - 1) |-> FieldText(d.fields[j])]))

\* *ast.Field: its names and its type expression with positions.
FieldNode(f, off) ==
    [Names |-> [i \in 1..Len(f.names) |-> [Name |-> f.names[i]]],
     Type |-> At(f.type, off + FieldTypeOff(f) + 1,
                 off + FieldTypeOff(f) + Len(TypeSrc(f.type, f.sp)) + 1)]

ImportSpecNode(s) ==
    [spec |-> "ImportSpec", Name |-> s.name, Path |-> [Value |-> Quote(s.path)]]

\* A top-level declaration node.  GenDecl: Tok, TokPos, Lparen, Specs, Rparen;
\* FuncDecl: only its position is read.  End is the node's End().
DeclNode(d, off) ==
    CASE d.d = "import" /\ ~d.block ->
            [node |-> "GenDecl", Tok |-> "IMPORT", TokPos |-> off + 1,
             Lparen |-> 0, Rparen |-> 0,
             Specs |-> <<ImportSpecNode(d.specs[1])>>,
             End |-> off + Len(DeclText(d))]
      [] d.d = "import" /\ d.block ->
            [node |-> "GenDecl", Tok |-> "IMPORT", TokPos |-> off + 1,
             Lparen |-> off + Len(kwImport) + 1, Rparen |-> off + Len(DeclText(d)) - 1,
             Specs |-> [i \in 1..Len(d.specs) |-> ImportSpecNode(d.specs[i])],
             End |-> off + Len(DeclText(d))]
      [] d.d = "struct" ->
            [node |-> "GenDecl", Tok |-> "TYPE", TokPos |-> off + 1,
             Lparen |-> 0, Rparen |-> 0,
             Specs |-> <<[spec |-> "TypeSpec", Name |-> [Name |-> d.name],
                          Type |-> [kind |-> "StructType",
                                    Fields |-> [List |-> [k \in 1..Len(d.fields) |->
                                        FieldNode(d.fields[k], FieldOff(d, off, k))]]]]>>,
             End |-> off + Len(DeclText(d))]
      [] d.d = "type" ->
            [node |-> "GenDecl", Tok |-> "TYPE", TokPos |-> off + 1,
             Lparen |-> 0, Rparen |-> 0,
             Specs |-> <<[spec |-> "TypeSpec", Name |-> [Name |-> d.name],
                          Type |-> d.type]>>,
             End |-> off + Len(DeclText(d))]
      [] d.d = "func" ->
            [node |-> "FuncDecl", Tok |-> "FUNC", TokPos |-> off + 1,
             Lparen |-> 0, Rparen |-> 0, Specs |-> <<>>,
             End |-> off + Len(DeclText(d))]
      [] d.d = "const" ->
            [node |-> "GenDecl", Tok |-> "CONST", TokPos |-> off + 1,
             Lparen |-> 0, Rparen |-> 0, Specs |-> <<>>,
             End |-> off + Len(DeclText(d))]

\* *ast.File for the bytes FileText(decls): Decls in source order, Imports
\* (every import spec of the file, in order) and FileEnd.
ParseTree(decls) ==
    LET nodes == [i \in 1..Len(decls) |-> DeclNode(decls[i], DeclOff(decls, i))]
    IN  [Decls |-> nodes,
         Imports |-> Cat([i \in 1..Len(nodes) |->
                            IF nodes[i].Tok = "IMPORT" THEN nodes[i].Specs ELSE <<>>]),
         FileEnd |-> Len(FileText(decls)) + 1]

\* fset.Position(pos).Offset
Offset(pos) == pos - 1

\* No import; the struct of the README and of the spec's scenario, with a tag.
\*   type Example struct { ID int64; Total *int64 `j` }
FileNoImport ==
    <<StructD(n_Example,
        <<FieldD(<<n_ID>>, Ident(t_int64), FALSE, <<>>, FALSE),
          FieldD(<<n_Total>>, StarExpr(Ident(t_int64)), FALSE, tagJ, FALSE)>>)>>

\* A single non-block import whose alias is its last path segment; a comment.
\*   import "x/fmt"
\*   type Example struct { /* // c */ ID int64; Name string }
FileSingleImport ==
    <<ImportD(FALSE, <<ImportSpecD(<<>>, p_xfmt)>>),
      StructD(n_Example,
        <<FieldD(<<n_ID>>, Ident(t_int64), FALSE, <<>>, TRUE),
          FieldD(<<n_Name>>, Ident(t_string), FALSE, <<>>, FALSE)>>)>>

\* A block import with an aliased entry, a non-struct type, an embedded
\* member, a map type written with inner blanks, and a function.
\*   import ( "fmt"; u "x/uuid" )
\*   type ID int64
\*   type Example struct { Base; M map[ string ]int; Total *int64 }
\*   func F() {}
FileBlockImport ==
    <<ImportD(TRUE, <<ImportSpecD(<<>>, p_fmt), ImportSpecD(a_u, p_xuuid)>>),
      TypeD(n_ID, Ident(t_int64)),
      StructD(n_Example,
        <<FieldD(<<>>, Ident(n_Base), FALSE, <<>>, FALSE),
          FieldD(<<n_M>>, MapType(Ident(t_string), Ident(t_int)), TRUE, <<>>, FALSE),
          FieldD(<<n_Total>>, StarExpr(Ident(t_int64)), FALSE, <<>>, FALSE)>>),
      FuncD>>

\* No import; a constant before two structs (TestEditor_EditStruct_MultipleTypes).
\*   const X = 1
\*   type Example struct { ID int64 }
\*   type Order struct { Total *int64 }
FileTwoStructs ==
    <<ConstD,
      StructD(n_Example, <<FieldD(<<n_ID>>, Ident(t_int64), FALSE, <<>>, FALSE)>>),
      StructD(n_Order,
        <<FieldD(<<n_Total>>, StarExpr(Ident(t_int64)), FALSE, <<>>, FALSE)>>)>>

\* No import; two names sharing one type expression, an embedded member after
\* them, and a fixed-length array.
\*   type Example struct { A, B *int64; Base; Arr [4]int }
FileMultiName ==
    <<StructD(n_Example,
        <<FieldD(<<n_A, n_B>>, StarExpr(Ident(t_int64)), FALSE, <<>>, FALSE),
          FieldD(<<>>, Ident(n_Base), FALSE, <<>>, FALSE),
          FieldD(<<n_Arr>>, ArrayType(<<"4">>, Ident(t_int)), FALSE, <<>>, FALSE)>>)>>

\* A package clause and nothing else.
FileOnlyPackage == <<>>

\* The source files the model parses.
Files ==
    {FileNoImport, FileSingleImport, FileBlockImport, FileTwoStructs, FileMultiName,
     FileOnlyPackage}

-----------------------------------------------------------------------------
(* Go maps: a map[string]string is a function from its keys.               *)

EmptyMap == [k \in {} |-> <<>>]
MapPut(m, k, v) == [x \in DOMAIN m \cup {k} |-> IF x = k THEN v ELSE m[x]]

-----------------------------------------------------------------------------
(* internal/editor: the Editor.                                            *)

RECURSIVE existingFrom(_, _, _)
\* The loop of newImportManager over file.Imports[i..].
existingFrom(imports, i, existing) ==
    IF i > Len(imports) THEN existing
    ELSE LET imp == imports[i]
             path == TrimQuotes(imp.Path.Value)
             name == IF imp.Name # <<>> THEN imp.Name ELSE LastSegment(path)
         IN  existingFrom(imports, i + 1, MapPut(existing, name, path))

newImportManager(file) == [existing |-> existingFrom(file.Imports, 1, EmptyMap)]

\* ParseFile on readable, syntactically valid bytes: the Editor it returns.
NewEditor(decls) ==
    [file |-> ParseTree(decls),
     src |-> FileText(decls),
     imports |-> newImportManager(ParseTree(decls))]

RECURSIVE typeString_NoMap(_)
\* typeString without its case for *ast.MapType (a map renders as "").
typeString_NoMap(t) ==
    CASE t.kind = "Ident" -> t.Name
      [] t.kind = "SelectorExpr" -> typeString_NoMap(t.X) \o <<".">> \o t.Sel
      [] t.kind = "StarExpr" -> <<"*">> \o typeString_NoMap(t.X)
      [] t.kind = "ArrayType" -> <<"[", "]">> \o typeString_NoMap(t.Elt)
      [] OTHER -> <<>>

RECURSIVE typeString(_)
typeString(t) ==
    CASE t.kind = "Ident" -> t.Name
      [] t.kind = "SelectorExpr" -> typeString(t.X) \o <<".">> \o t.Sel
      [] t.kind = "StarExpr" -> <<"*">> \o typeString(t.X)
      [] t.kind = "ArrayType" -> <<"[", "]">> \o typeString(t.Elt)
      [] t.kind = "MapType" ->
            kwMap \o <<"[">> \o typeString(t.Key) \o <<"]">> \o typeString(t.Value)
      [] OTHER -> <<>>

\* append(s[:start], append([]byte(text), s[end:]...)...): the result, or a
\* panic when end is beyond len(s) (slice bounds out of range).
Splice(s, start, end, text) ==
    IF end > Len(s) \/ start > end
    THEN [ok |-> FALSE, src |-> s]
    ELSE [ok |-> TRUE, src |-> Slice(s, 0, start) \o text \o Slice(s, end, Len(s))]

replaceType(src, expr, newType) ==
    Splice(src, Offset(expr.Pos), Offset(expr.End), newType)

RECURSIVE editNames(_, _, _, _)
\* The loop of editFields over field.Names[k..]; acc = [src, modified, ok].
editNames(field, k, fieldEdits, acc) ==
    IF k > Len(field.Names) \/ ~acc.ok THEN acc
    ELSE LET name == field.Names[k].Name IN
         IF name \notin DOMAIN fieldEdits
         THEN editNames(field, k + 1, fieldEdits, acc)
         ELSE IF typeString(field.Type) = fieldEdits[name]
         THEN editNames(field, k + 1, fieldEdits, acc)
         ELSE LET r == replaceType(acc.src, field.Type, fieldEdits[name])
              IN  editNames(field, k + 1, fieldEdits,
                            [src |-> r.src, modified |-> TRUE, ok |-> r.ok])

RECURSIVE editFieldList(_, _, _, _)
\* The loop of editFields over st.Fields.List[i..].
editFieldList(list, i, fieldEdits, acc) ==
    IF i > Len(list) \/ ~acc.ok THEN acc
    ELSE IF Len(list[i].Names) = 0
    THEN editFieldList(list, i + 1, fieldEdits, acc)
    ELSE editFieldList(list, i + 1, fieldEdits, editNames(list[i], 1, fieldEdits, acc))

\* editFields on buffer src: [src, modified, ok].
editFields(src, st, fieldEdits) ==
    editFieldList(st.Fields.List, 1, fieldEdits,
                  [src |-> src, modified |-> FALSE, ok |-> TRUE])

RECURSIVE editSpecs_AnyName(_, _, _, _, _)
\* editSpecs without the comparison of ts.Name.Name with structName.
editSpecs_AnyName(specs, j, structName, fieldEdits, acc) ==
    IF j > Len(specs) \/ ~acc.ok THEN acc
    ELSE LET ts == specs[j] IN
         IF ts.spec # "TypeSpec"
         THEN editSpecs_AnyName(specs, j + 1, structName, fieldEdits, acc)
         ELSE IF ts.Type.kind # "StructType"
         THEN editSpecs_AnyName(specs, j + 1, structName, fieldEdits, acc)
         ELSE LET r == editFields(acc.src, ts.Type, fieldEdits)
              IN  editSpecs_AnyName(specs, j + 1, structName, fieldEdits,
                            [src |-> r.src, modified |-> acc.modified \/ r.modified,
                             ok |-> r.ok])

RECURSIVE editSpecs(_, _, _, _, _)
\* The loop of EditStruct over gd.Specs[j..].
editSpecs(specs, j, structName, fieldEdits, acc) ==
    IF j > Len(specs) \/ ~acc.ok THEN acc
    ELSE LET ts == specs[j] IN
         IF ts.spec # "TypeSpec" \/ ts.Name.Name # structName
         THEN editSpecs(specs, j + 1, structName, fieldEdits, acc)
         ELSE IF ts.Type.kind # "StructType"
         THEN editSpecs(specs, j + 1, structName, fieldEdits, acc)
         ELSE LET r == editFields(acc.src, ts.Type, fieldEdits)
              IN  editSpecs(specs, j + 1, structName, fieldEdits,
                            [src |-> r.src, modified |-> acc.modified \/ r.modified,
                             ok |-> r.ok])

RECURSIVE editDecls(_, _, _, _, _)
\* The loop of EditStruct over e.file.Decls[i..].
editDecls(decls, i, structName, fieldEdits, acc) ==
    IF i > Len(decls) \/ ~acc.ok THEN acc
    ELSE LET gd == decls[i] IN
         IF gd.node # "GenDecl" \/ gd.Tok # "TYPE"
         THEN editDecls(decls, i + 1, structName, fieldEdits, acc)
         ELSE editDecls(decls, i + 1, structName, fieldEdits,
                        editSpecs(gd.Specs, 1, structName, fieldEdits, acc))

\* e.EditStruct(structName, fieldEdits): the Editor afterwards, the returned
\* (modified, err) with err = FALSE for nil, and ok = FALSE when a splice panicked.
EditStruct(e, structName, fieldEdits) ==
    LET r == editDecls(e.file.Decls, 1, structName, fieldEdits,
                       [src |-> e.src, modified |-> FALSE, ok |-> TRUE])
    IN  [ed |-> [e EXCEPT !.src = r.src], modified |-> r.modified, err |-> FALSE,
         ok |-> r.ok]

\* StructNames that also wants the declared type to be a struct.
StructNames_OnlyStructs(e) ==
    Cat([i \in 1..Len(e.file.Decls) |->
            IF e.file.Decls[i].node = "GenDecl" /\ e.file.Decls[i].Tok = "TYPE"
            THEN Cat([j \in 1..Len(e.file.Decls[i].Specs) |->
                    IF e.file.Decls[i].Specs[j].Type.kind = "StructType"
                    THEN <<e.file.Decls[i].Specs[j].Name.Name>> ELSE <<>>])
            ELSE <<>>])

\* e.StructNames(): the names of the type declarations, in source order.
StructNames(e) ==
    Cat([i \in 1..Len(e.file.Decls) |->
            IF e.file.Decls[i].node = "GenDecl" /\ e.file.Decls[i].Tok = "TYPE"
            THEN [j \in 1..Len(e.file.Decls[i].Specs) |->
                    e.file.Decls[i].Specs[j].Name.Name]
            ELSE <<>>])

-----------------------------------------------------------------------------
(* internal/editor: the import manager.                                    *)

kwImportOpen ==
    <<"i", "m", "p", "o", "r", "t", " ", "(">>

\* importSpec{alias, path}
importSpec(alias, path) == [alias |-> alias, path |-> path]

\* fmt.Sprintf("\t\"%s\"", spec.path)
newImportLine(spec) == <<TAB, DQ>> \o spec.path \o <<DQ>>

\* specString that drops the name of a named import.
specString_NoAlias(is) ==
    IF is.spec # "ImportSpec" THEN <<>> ELSE is.Path.Value

specString(is) ==
    IF is.spec # "ImportSpec" THEN <<>>
    ELSE IF is.Name # <<>> THEN is.Name \o <<SP>> \o is.Path.Value
    ELSE is.Path.Value

RECURSIVE findInsertFrom(_, _)
\* The loop of findInsertPosition over im.file.Decls[i..].
findInsertFrom(file, i) ==
    IF i > Len(file.Decls) THEN file.FileEnd
    ELSE IF file.Decls[i].node = "GenDecl" /\ file.Decls[i].Tok = "IMPORT"
    THEN findInsertFrom(file, i + 1)
    ELSE file.Decls[i].TokPos

\* findInsertPosition that always answers the end of the file.
findInsertPosition_FileEnd(file) == file.FileEnd

findInsertPosition(file) == findInsertFrom(file, 1)

\* findImportDecl: the index in Decls of the first import declaration, 0 for nil.
findImportDecl(file) ==
    IF \E i \in 1..Len(file.Decls) :
            file.Decls[i].node = "GenDecl" /\ file.Decls[i].Tok = "IMPORT"
    THEN CHOOSE i \in 1..Len(file.Decls) :
            /\ file.Decls[i].node = "GenDecl" /\ file.Decls[i].Tok = "IMPORT"
            /\ \A j \in 1..(i - 1) :
                ~(file.Decls[j].node = "GenDecl" /\ file.Decls[j].Tok = "IMPORT")
    ELSE 0

\* insertNewImportBlock: [ok, src, err].
insertNewImportBlock(file, toAdd, src) ==
    LET start == Offset(findInsertPosition(file))
        lines == <<kwImportOpen>>
                    \o [i \in 1..Len(toAdd) |-> newImportLine(toAdd[i])]
                    \o << <<")", NL, NL>> >>
        newBlock == Join(lines, <<NL>>)
        r == Splice(src, start, start, newBlock)
    IN  [ok |-> r.ok, src |-> r.src, err |-> FALSE]

\* addToBlock that writes the new entries before the block's own.
addToBlock_NewFirst(importDecl, toAdd, src) ==
    LET start == Offset(importDecl.Lparen)
        end == Offset(importDecl.Rparen) + 1
        existingImports ==
            [i \in 1..Len(toAdd) |-> newImportLine(toAdd[i])]
                \o [i \in 1..Len(importDecl.Specs) |->
                        <<TAB>> \o specString(importDecl.Specs[i])]
        newBlock == <<"(", NL>> \o Join(existingImports, <<NL>>) \o <<NL, ")">>
        r == Splice(src, start, end, newBlock)
    IN  [ok |-> r.ok, src |-> r.src, err |-> FALSE]

\* addToBlock: [ok, src, err].
addToBlock(importDecl, toAdd, src) ==
    LET start == Offset(importDecl.Lparen)
        end == Offset(importDecl.Rparen) + 1
        existingImports ==
            [i \in 1..Len(importDecl.Specs) |-> <<TAB>> \o specString(importDecl.Specs[i])]
                \o [i \in 1..Len(toAdd) |-> newImportLine(toAdd[i])]
        newBlock == <<"(", NL>> \o Join(existingImports, <<NL>>) \o <<NL, ")">>
        r == Splice(src, start, end, newBlock)
    IN  [ok |-> r.ok, src |-> r.src, err |-> FALSE]

\* convertToBlock with the statement's offsets moved by the change of the
\* buffer's length since the parse.
convertToBlock_Shifted(file, toAdd, src) ==
    LET i == findImportDecl(file) IN
    IF i = 0 THEN [ok |-> TRUE, src |-> src, err |-> TRUE]
    ELSE LET gd == file.Decls[i]
             start == Offset(gd.TokPos) + (Len(src) - file.FileEnd)
             end == Offset(gd.End) + (Len(src) - file.FileEnd)
             imports ==
                [k \in 1..Len(gd.Specs) |-> <<TAB>> \o specString(gd.Specs[k])]
                    \o [k \in 1..Len(toAdd) |-> newImportLine(toAdd[k])]
             newBlock == kwImportOpen \o <<NL>> \o Join(imports, <<NL>>) \o <<NL, ")">>
             r == Splice(src, start, end, newBlock)
         IN  [ok |-> r.ok, src |-> r.src, err |-> FALSE]

\* convertToBlock: [ok, src, err]; err is "no import declaration found".
convertToBlock(file, toAdd, src) ==
    LET i == findImportDecl(file) IN
    IF i = 0 THEN [ok |-> TRUE, src |-> src, err |-> TRUE]
    ELSE LET gd == file.Decls[i]
             start == Offset(gd.TokPos)
             end == Offset(gd.End)
             imports ==
                [k \in 1..Len(gd.Specs) |-> <<TAB>> \o specString(gd.Specs[k])]
                    \o [k \in 1..Len(toAdd) |-> newImportLine(toAdd[k])]
             newBlock == kwImportOpen \o <<NL>> \o Join(imports, <<NL>>) \o <<NL, ")">>
             r == Splice(src, start, end, newBlock)
         IN  [ok |-> r.ok, src |-> r.src, err |-> FALSE]

RECURSIVE collectToAdd_NoRecord(_, _, _, _)
\* collectToAdd without `im.existing[alias] = pkgPath`.
collectToAdd_NoRecord(required, order, k, acc) ==
    IF k > Len(order) THEN acc
    ELSE LET alias == order[k] IN
         IF alias \in DOMAIN acc.existing
         THEN collectToAdd_NoRecord(required, order, k + 1, acc)
         ELSE collectToAdd_NoRecord(required, order, k + 1,
                [toAdd |-> Append(acc.toAdd, importSpec(alias, required[alias])),
                 existing |-> acc.existing])

RECURSIVE collectToAdd(_, _, _, _)
\* The loop of add over required, visited in the order `order` (a Go map's
\* iteration order is unspecified): [toAdd, existing].
collectToAdd(required, order, k, acc) ==
    IF k > Len(order) THEN acc
    ELSE LET alias == order[k] IN
         IF alias \in DOMAIN acc.existing
         THEN collectToAdd(required, order, k + 1, acc)
         ELSE collectToAdd(required, order, k + 1,
                [toAdd |-> Append(acc.toAdd, importSpec(alias, required[alias])),
                 existing |-> MapPut(acc.existing, alias, required[alias])])

\* im.add(required, &e.src) on Editor e: [ed, ok, err].
add(e, required, order) ==
    LET c == collectToAdd(required, order, 1,
                          [toAdd |-> <<>>, existing |-> e.imports.existing])
        e1 == [e EXCEPT !.imports.existing = c.existing]
        i == findImportDecl(e.file)
        r == IF Len(e.file.Imports) = 0
             THEN insertNewImportBlock(e.file, c.toAdd, e.src)
             ELSE IF i # 0 /\ e.file.Decls[i].Lparen # 0
             THEN addToBlock(e.file.Decls[i], c.toAdd, e.src)
             ELSE convertToBlock(e.file, c.toAdd, e.src)
    IN  IF Len(c.toAdd) = 0
        THEN [ed |-> e1, ok |-> TRUE, err |-> FALSE]
        ELSE [ed |-> [e1 EXCEPT !.src = r.src], ok |-> r.ok, err |-> r.err]

\* e.AddImports(required)
AddImports(e, required, order) == add(e, required, order)

\* The orders in which a map with these keys can be iterated.
Orders(keys) ==
    {o \in [1..Cardinality(keys) -> keys] : \A i, j \in DOMAIN o : i # j => o[i] # o[j]}

-----------------------------------------------------------------------------
(* Calls on one Editor: after ParseFile, any EditStruct and AddImports     *)
(* calls in any order, with arguments from the sets below.                 *)

Map1(k, v) == MapPut(EmptyMap, k, v)
Map2(k1, v1, k2, v2) == MapPut(Map1(k1, v1), k2, v2)

StructNameArgs == {n_Example, n_Order, n_ID, n_Missing}

FieldEditArgs ==
    {Map1(n_ID, t_string),
     Map1(n_ID, t_int64),
     Map1(n_Total, t_uint64),
     Map1(n_Total, t_timeTime),
     Map2(n_ID, t_string, n_Total, t_uint64),
     Map2(n_ID, t_int, n_Name, t_int64),
     Map2(n_M, t_mapStringInt, n_Nope, t_int),
     Map1(n_Base, t_int),
     Map1(n_A, t_int),
     Map2(n_A, t_int, n_B, t_string),
     Map1(n_Arr, t_sliceInt),
     Map2(n_Base, t_int, n_Arr, t_string)}

\* The EditStruct calls made: every edits map on the struct Example, the maps
\* with the member Total on the struct Order, and one call each on a type
\* that is no struct and on a name no file declares.
EditArgs ==
    {<<n_Example, m>> : m \in FieldEditArgs}
        \cup {<<n_Order, m>> : m \in {x \in FieldEditArgs : n_Total \in DOMAIN x}}
        \cup {<<n, Map1(n_ID, t_string)>> : n \in StructNameArgs \ {n_Example, n_Order}}

RequiredArgs ==
    {EmptyMap,
     Map1(p_time, p_time),
     Map1(p_fmt, p_fmt),
     Map1(a_u, p_os),
     Map2(p_time, p_time, p_os, p_os)}

\* The Editor that main's dummy state holds while only the Editor is exercised.
NoMain ==
    /\ disk = <<>>
    /\ cfg = <<>>
    /\ idx = 0
    /\ pc = "api"
    /\ stderr = {}
    /\ log = <<>>

Init ==
    /\ \E f \in Files :
        /\ ed = NewEditor(f)
        /\ orig = FileText(f)
    /\ hist = <<>>
    /\ crashed = FALSE
    /\ NoMain

\* One record of hist: the call, its arguments, what it returned (modified,
\* always FALSE for AddImports, and err # nil), and the buffer and the bound
\* aliases before it; for AddImports the order in which the map was
\* iterated, for StructNames the names returned.
Call(op, name, arg, modified, err, order, names) ==
    [op |-> op, name |-> name, arg |-> arg, modified |-> modified, err |-> err,
     before |-> ed.src, bound |-> DOMAIN ed.imports.existing,
     order |-> order, names |-> names]

CallEditStruct ==
    /\ ~crashed
    /\ Len(hist) < MaxCalls
    /\ \E call \in EditArgs :
        LET r == EditStruct(ed, call[1], call[2]) IN
        /\ ed' = r.ed
        /\ crashed' = ~r.ok
        /\ hist' = Append(hist, Call("EditStruct", call[1], call[2], r.modified, r.err,
                                    <<>>, <<>>))
    /\ UNCHANGED <<orig, mainVars>>

CallAddImports ==
    /\ ~crashed
    /\ Len(hist) < MaxCalls
    /\ \E required \in RequiredArgs :
        \E order \in Orders(DOMAIN required) :
            LET r == AddImports(ed, required, order) IN
            /\ ed' = r.ed
            /\ crashed' = ~r.ok
            /\ hist' = Append(hist, Call("AddImports", <<>>, required, FALSE, r.err,
                                        order, <<>>))
    /\ UNCHANGED <<orig, mainVars>>

CallStructNames ==
    /\ ~crashed
    /\ Len(hist) < MaxCalls
    /\ hist' = Append(hist, Call("StructNames", <<>>, EmptyMap, FALSE, FALSE,
                                 <<>>, StructNames(ed)))
    /\ UNCHANGED <<ed, crashed, orig, mainVars>>

Next == CallEditStruct \/ CallAddImports \/ CallStructNames

Spec == Init /\ [][Next]_vars

-----------------------------------------------------------------------------
(* internal/config: the configuration and its inferred imports.            *)

TypeConfig(type, fields) == [Type |-> type, Fields |-> fields]

RECURSIVE TrimStar_All(_)
\* TrimPrefix that removes every leading "*".
TrimStar_All(s) == IF s # <<>> /\ Head(s) = "*" THEN TrimStar_All(Tail(s)) ELSE s

\* strings.TrimPrefix(s, "*")
TrimStar(s) == IF s # <<>> /\ Head(s) = "*" THEN Tail(s) ELSE s

\* strings.SplitN(s, ".", 2): one part when s holds no ".", else two.
SplitDot(s) ==
    IF \E i \in 1..Len(s) : s[i] = "."
    THEN LET i == CHOOSE i \in 1..Len(s) :
                    s[i] = "." /\ \A j \in 1..(i - 1) : s[j] # "."
         IN  <<SubSeq(s, 1, i - 1), SubSeq(s, i + 1, Len(s))>>
    ELSE <<s>>

parseQualifiedType(typeStr) ==
    LET parts == SplitDot(TrimStar(typeStr)) IN
    IF Len(parts) # 2 THEN [pkg |-> <<>>, alias |-> <<>>, ok |-> FALSE]
    ELSE [pkg |-> parts[1], alias |-> parts[1], ok |-> TRUE]

\* tc.Imports(): alias -> package, one entry per qualified field type.
Imports(tc) ==
    LET q == {parseQualifiedType(tc.Fields[f]) : f \in DOMAIN tc.Fields}
    IN  [a \in {r.alias : r \in {x \in q : x.ok}} |-> a]

-----------------------------------------------------------------------------
(* main: processFile and the loop over the directory's files.              *)

kwBadSyntax ==
    <<"p", "a", "c", "k", "a", "g", "e", " ", "p", "\n", "t", "y", "p", "e", " ", "E", " ", "s", "t", "r", "u", "c", "t", " ", "{">>

\* A file of the directory: readable or not, its bytes, and, when the bytes
\* are valid Go, the declarations they hold.
GoFile(decls) ==
    [readable |-> TRUE, valid |-> TRUE, decls |-> decls, bytes |-> FileText(decls)]
UnreadableFile ==
    [readable |-> FALSE, valid |-> FALSE, decls |-> <<>>, bytes |-> <<>>]
BadSyntaxFile ==
    [readable |-> TRUE, valid |-> FALSE, decls |-> <<>>, bytes |-> kwBadSyntax]

\* editor.ParseFile(path): err is "read" (os.ReadFile failed), "parse"
\* (parser.ParseFile failed) or "" with the Editor in ed.
ParseFile(f) ==
    IF ~f.readable THEN [err |-> "read", ed |-> NewEditor(<<>>)]
    ELSE IF ~f.valid THEN [err |-> "parse", ed |-> NewEditor(<<>>)]
    ELSE [err |-> "", ed |-> NewEditor(f.decls)]

RECURSIVE configMapFrom(_, _, _)
\* configMap[c.Type] = c for each c of configs, in order.
configMapFrom(configs, i, m) ==
    IF i > Len(configs) THEN m
    ELSE configMapFrom(configs, i + 1, MapPut(m, configs[i].Type, configs[i]))

RECURSIVE editAll(_, _, _, _)
\* The loop of processFile over structNames[i..]: acc = [ed, anyModified, ok].
editAll(structNames, i, configMap, acc) ==
    IF i > Len(structNames) \/ ~acc.ok THEN acc
    ELSE IF structNames[i] \notin DOMAIN configMap
    THEN editAll(structNames, i + 1, configMap, acc)
    ELSE LET r == EditStruct(acc.ed, structNames[i], configMap[structNames[i]].Fields)
         IN  editAll(structNames, i + 1, configMap,
                     [ed |-> r.ed, anyModified |-> acc.anyModified \/ r.modified,
                      ok |-> r.ok])

RECURSIVE requiredFrom(_, _, _)
\* requiredImports: the union of tc.Imports() over every tc of configs.
requiredFrom(configs, i, m) ==
    IF i > Len(configs) THEN m
    ELSE LET im == Imports(configs[i])
         IN  requiredFrom(configs, i + 1,
                          [a \in DOMAIN m \cup DOMAIN im |->
                              IF a \in DOMAIN im THEN im[a] ELSE m[a]])

requiredImports(configs) == requiredFrom(configs, 1, EmptyMap)

\* ed.Apply(), called by processFile and by the tests: editor.go defines no
\* such method and replaceType has already changed e.src when it is called;
\* it is taken to leave the Editor as it is.
Apply(e) == e

\* processFile from the call of AddImports on (main.go:103-114): an error of
\* AddImports is returned, otherwise WriteTo runs when anything was modified.
writeFile(f, edited, added) ==
    IF added.err
    THEN [err |-> "add imports", written |-> FALSE, bytes |-> f.bytes, ok |-> added.ok]
    ELSE [err |-> "", written |-> edited.anyModified /\ added.ok,
          bytes |-> IF edited.anyModified /\ added.ok THEN added.ed.src ELSE f.bytes,
          ok |-> added.ok]

\* processFile after the loop over structNames (main.go:93-112): when anything
\* was modified, Apply, then AddImports of the required imports if any.
addRequired(f, edited, req, order) ==
    IF ~edited.ok
    THEN [err |-> "", written |-> FALSE, bytes |-> f.bytes, ok |-> FALSE]
    ELSE writeFile(f, edited,
                   IF edited.anyModified /\ DOMAIN req # {}
                   THEN AddImports(Apply(edited.ed), req, order)
                   ELSE [ed |-> edited.ed, ok |-> TRUE, err |-> FALSE])

\* processFile after editor.ParseFile (main.go:67-91): its error is returned,
\* otherwise every struct of the file that the configuration names is edited.
editFile(f, p, configs, order) ==
    IF p.err # ""
    THEN [err |-> p.err, written |-> FALSE, bytes |-> f.bytes, ok |-> TRUE]
    ELSE addRequired(f,
                     editAll(StructNames(p.ed), 1, configMapFrom(configs, 1, EmptyMap),
                             [ed |-> p.ed, anyModified |-> FALSE, ok |-> TRUE]),
                     requiredImports(configs), order)

\* processFile(path, configs) on file f: err ("" for nil), whether WriteTo
\* ran, the bytes it wrote, and ok = FALSE when a splice panicked.  order is
\* the iteration order of requiredImports inside AddImports.
processFile(f, configs, order) == editFile(f, ParseFile(f), configs, order)

\* main going on with the next file after reporting an error.
onError_Continue == "run"

\* What main does when processFile returns an error: os.Exit(1).
onError == "exit1"

DiskFiles == {GoFile(f) : f \in Files} \cup {UnreadableFile, BadSyntaxFile}

\* edit.yaml of the README (two documents), and variations.
Configs ==
    {<<TypeConfig(n_Example, Map1(n_Total, t_uint64))>>,
     <<TypeConfig(n_Example, Map1(n_Total, t_uint64)),
       TypeConfig(n_Order, Map1(n_Total, t_timeTime))>>,
     <<TypeConfig(n_Example, Map2(n_ID, t_string, n_Name, t_timeTime))>>,
     <<TypeConfig(n_Missing, Map1(n_ID, t_timeTime))>>}

\* The Editor variables while main runs (each processFile has its own Editor).
NoEditor ==
    /\ ed = NewEditor(<<>>)
    /\ orig = <<>>
    /\ hist = <<>>
    /\ crashed = FALSE

InitMain ==
    /\ \E n \in 1..MaxFiles : disk \in [1..n -> DiskFiles]
    /\ cfg \in Configs
    /\ idx = 1
    /\ pc = "run"
    /\ stderr = {}
    /\ log = <<>>
    /\ NoEditor

\* One iteration of main's loop whose processFile returns nil.
ProcessFileOk ==
    /\ pc = "run"
    /\ idx <= Len(disk)
    /\ \E order \in Orders(DOMAIN requiredImports(cfg)) :
        \E r \in {processFile(disk[idx], cfg, order)} :
        /\ r.err = ""
        /\ disk' = [disk EXCEPT ![idx].bytes = r.bytes]
        /\ log' = Append(log, r)
        /\ pc' = IF r.ok THEN "run" ELSE "panic"
        /\ idx' = idx + 1
    /\ UNCHANGED <<cfg, stderr, edVars>>

\* One iteration whose processFile returns an error: report it and exit.
ProcessFileErr ==
    /\ pc = "run"
    /\ idx <= Len(disk)
    /\ \E order \in Orders(DOMAIN requiredImports(cfg)) :
        \E r \in {processFile(disk[idx], cfg, order)} :
        /\ r.err # ""
        /\ log' = Append(log, r)
        /\ stderr' = stderr \cup {idx}
        /\ pc' = onError
        /\ idx' = idx + 1
    /\ UNCHANGED <<disk, cfg, edVars>>

\* The loop is over: main returns.
MainReturn ==
    /\ pc = "run"
    /\ idx > Len(disk)
    /\ pc' = "done"
    /\ UNCHANGED <<disk, cfg, idx, stderr, log, edVars>>

NextMain == ProcessFileOk \/ ProcessFileErr \/ MainReturn

SpecMain == InitMain /\ [][NextMain]_vars

-----------------------------------------------------------------------------
(* internal/editor: the imports inferred from type texts.                  *)

RECURSIVE TrimSpace(_)
\* strings.TrimSpace(s)
TrimSpace(s) ==
    IF s # <<>> /\ Head(s) \in {SP, TAB, NL} THEN TrimSpace(Tail(s))
    ELSE IF s # <<>> /\ s[Len(s)] \in {SP, TAB, NL} THEN TrimSpace(SubSeq(s, 1, Len(s) - 1))
    ELSE s

\* strings.HasPrefix(s, "*")
HasStarPrefix(s) == s # <<>> /\ Head(s) = "*"

\* ParseTypeString(typeStr): (pkgPath, typeName, isPointer).
ParseTypeString(typeStr) ==
    LET trimmed == TrimSpace(typeStr)
        isPointer == HasStarPrefix(trimmed)
        rest == IF isPointer THEN TrimStar(trimmed) ELSE trimmed
        parts == SplitDot(rest)
    IN  IF Len(parts) = 2
        THEN [pkgPath |-> parts[1], typeName |-> parts[2], isPointer |-> isPointer]
        ELSE [pkgPath |-> <<>>, typeName |-> rest, isPointer |-> isPointer]

\* e.RequiredImports(fieldEdits): imports[pkgPath] = pkgPath for every field
\* type whose pkgPath is not empty.
RequiredImports(e, fieldEdits) ==
    LET paths == {ParseTypeString(fieldEdits[f]).pkgPath : f \in DOMAIN fieldEdits}
    IN  [p \in {q \in paths : q # <<>>} |-> p]

-----------------------------------------------------------------------------
(* Type texts of the accepted syntax, and calls made with them: the        *)
(* configuration names one struct and gives new type texts for its members.*)

\* Identifier and qualified identifier.
Atoms == {Ident(t_int), SelectorExpr(Ident(t_time), t_Time)}

RECURSIVE TypesUpTo(_)
\* Type expressions nested at most d deep: pointer-of, slice-of and map-of
\* (with an identifier or qualified identifier as key) over the atoms.
TypesUpTo(d) ==
    IF d = 0 THEN Atoms
    ELSE LET S == TypesUpTo(d - 1)
         IN  Atoms \cup {StarExpr(x) : x \in S} \cup {ArrayType(<<>>, x) : x \in S}
                   \cup {MapType(k, v) : k \in Atoms, v \in S}

TypeExprs == TypesUpTo(MaxDepth)

\* The type texts: each expression as written in Go source.
TypeTexts == {TypeSrc(t, FALSE) : t \in TypeExprs}

\* The types used in pairs: unqualified, qualified, pointer to qualified,
\* and a slice with a second qualifier.
PairTypes ==
    {Ident(t_uint64), SelectorExpr(Ident(t_time), t_Time),
     StarExpr(SelectorExpr(Ident(t_time), t_Time)),
     ArrayType(<<>>, SelectorExpr(Ident(p_os), t_Time))}

PairTexts == {TypeSrc(t, FALSE) : t \in PairTypes}

\* The edits of a configuration entry: one member, or two.
RerunFieldEdits ==
    {Map1(n, t) : n \in {n_ID, n_Total}, t \in TypeTexts}
        \cup {Map2(n_ID, a, n_Total, b) : a \in PairTexts, b \in PairTexts}

InitRerun ==
    /\ ed = NewEditor(FileNoImport)
    /\ orig = FileText(FileNoImport)
    /\ hist = <<>>
    /\ crashed = FALSE
    /\ cfg \in {<<TypeConfig(n_Example, fe)>> : fe \in RerunFieldEdits}
    /\ disk = <<>>
    /\ idx = 0
    /\ pc = "api"
    /\ stderr = {}
    /\ log = <<>>

\* The imports inferred for the configured edits, by the Editor
\* (e.RequiredImports) and by the configuration (tc.Imports()).
CallRequiredImports ==
    /\ hist = <<>>
    /\ hist' = <<[op |-> "RequiredImports", arg |-> cfg[1].Fields, err |-> FALSE,
                  editor |-> RequiredImports(ed, cfg[1].Fields),
                  config |-> Imports(cfg[1])]>>
    /\ UNCHANGED <<ed, orig, crashed, mainVars>>

\* The declarations decls with the type of field k of struct i written as T.
Retyped(decls, i, k, T) ==
    [decls EXCEPT ![i].fields[k].type = T, ![i].fields[k].sp = FALSE]

\* The files go/parser is given here: the file as first parsed, with any
\* type expression in place of one member's type, or a pair in place of both.
ParseCandidates ==
    {FileNoImport}
        \cup {Retyped(FileNoImport, 1, k, T) : k \in 1..2, T \in TypeExprs \cup PairTypes}
        \cup {Retyped(Retyped(FileNoImport, 1, 1, T), 1, 2, U) :
                    T \in PairTypes, U \in PairTypes}

\* parser.ParseFile on bytes b: the declarations whose text b is, or a
\* syntax error when b is the text of no file.
ParseBytes(b) ==
    IF \E d \in ParseCandidates : FileText(d) = b
    THEN [err |-> FALSE, decls |-> CHOOSE d \in ParseCandidates : FileText(d) = b]
    ELSE [err |-> TRUE, decls |-> <<>>]

\* e.EditStruct with the configured struct name and edits: the first run of
\* the tool, and the second run on the file the first one wrote.
CallEditStructConfigured ==
    /\ ~crashed
    /\ hist # <<>>
    /\ hist[Len(hist)].op \in {"RequiredImports", "ParseFile"}
    /\ ~hist[Len(hist)].err
    /\ \E r \in {EditStruct(ed, cfg[1].Type, cfg[1].Fields)} :
        /\ ed' = r.ed
        /\ crashed' = ~r.ok
        /\ hist' = Append(hist, Call("EditStruct", cfg[1].Type, cfg[1].Fields,
                                     r.modified, r.err, <<>>, <<>>))
    /\ UNCHANGED <<orig, mainVars>>

\* e.WriteTo(path), then ParseFile(path): a new Editor on the bytes written.
CallParseFile ==
    /\ ~crashed
    /\ Len(hist) = 2
    /\ hist[2].op = "EditStruct"
    /\ \E p \in {ParseBytes(ed.src)} :
        /\ ed' = IF p.err THEN ed ELSE NewEditor(p.decls)
        /\ hist' = Append(hist, Call("ParseFile", <<>>, EmptyMap, FALSE, p.err,
                                     <<>>, <<>>))
    /\ UNCHANGED <<orig, crashed, mainVars>>

NextRerun == CallRequiredImports \/ CallEditStructConfigured \/ CallParseFile

SpecRerun == InitRerun /\ [][NextRerun]_vars

-----------------------------------------------------------------------------
(* What the calls of hist asked for, read off the syntax tree.             *)

kwImportWord ==
    <<"i", "m", "p", "o", "r", "t">>

\* The named members of the file's struct declarations: the declaration's
\* name, the member's names, the span of its type in the bytes parsed, and
\* the canonical text of its type (the source text without inner blanks).
Sites(file) ==
    UNION {UNION {{[struct |-> file.Decls[i].Specs[j].Name.Name,
                    names |-> {file.Decls[i].Specs[j].Type.Fields.List[k].Names[n].Name :
                                n \in 1..Len(file.Decls[i].Specs[j].Type.Fields.List[k].Names)},
                    start |-> Offset(file.Decls[i].Specs[j].Type.Fields.List[k].Type.Pos),
                    end |-> Offset(file.Decls[i].Specs[j].Type.Fields.List[k].Type.End),
                    canon |-> TypeSrc(file.Decls[i].Specs[j].Type.Fields.List[k].Type, FALSE)] :
                        k \in {k \in 1..Len(file.Decls[i].Specs[j].Type.Fields.List) :
                                Len(file.Decls[i].Specs[j].Type.Fields.List[k].Names) > 0}} :
                    j \in {j \in 1..Len(file.Decls[i].Specs) :
                            file.Decls[i].Specs[j].Type.kind = "StructType"}} :
            i \in {i \in 1..Len(file.Decls) : file.Decls[i].Tok = "TYPE"}}

\* The members call h addresses: those of a struct named h.name with a name
\* that is a key of the edits map.
Addressed(h) ==
    {s \in Sites(ed.file) : s.struct = h.name /\ s.names \cap DOMAIN h.arg # {}}

\* The replacements call h asks for: for each member it addresses, its span
\* and the new text, unless that text is the member's canonical type text.
Requests(h) ==
    IF h.op # "EditStruct" THEN {}
    ELSE UNION {{[start |-> s.start, end |-> s.end, text |-> h.arg[n]] :
                    n \in {n \in s.names \cap DOMAIN h.arg : h.arg[n] # s.canon}} :
                s \in Addressed(h)}

\* Every replacement asked for so far.
AllRequests == UNION {Requests(hist[k]) : k \in 1..Len(hist)}

\* The replacements in force: per span, the one of the latest call asking for it.
FinalRequests ==
    {r \in AllRequests :
        \E k \in 1..Len(hist) :
            /\ r \in Requests(hist[k])
            /\ \A m \in (k + 1)..Len(hist) :
                \A q \in Requests(hist[m]) : q.start # r.start}

RECURSIVE SpliceAll(_, _)
\* s with each span of E (disjoint, in the coordinates of s) replaced by its text.
SpliceAll(s, E) ==
    IF E = {} THEN s
    ELSE LET e == CHOOSE e \in E : \A x \in E : x.start <= e.start
         IN  SpliceAll(Slice(s, 0, e.start) \o e.text \o Slice(s, e.end, Len(s)), E \ {e})

\* Sets of replacements with at most one text per span.
OnePerSpan(E) == \A x, y \in E : x.start = y.start => x = y

OnlyEditStructCalls == \A k \in 1..Len(hist) : hist[k].op = "EditStruct"
OnlyAddImportsCalls == \A k \in 1..Len(hist) : hist[k].op = "AddImports"

\* The buffer after call k of hist.
After(k) == IF k = Len(hist) THEN ed.src ELSE hist[k + 1].before

RECURSIVE Gaps(_, _, _)
\* The pieces of s outside the spans of E, in order, from offset `from` on.
Gaps(s, E, from) ==
    IF E = {} THEN <<Slice(s, from, Len(s))>>
    ELSE LET e == CHOOSE e \in E : \A x \in E : e.start <= x.start
         IN  <<Slice(s, from, e.start)>> \o Gaps(s, E \ {e}, e.end)

RECURSIVE FitsFrom(_, _, _)
\* s, from offset `from` on, is X1 G1 X2 G2 ... Xn Gn for the pieces G of
\* gaps and some texts X.
FitsFrom(s, from, gaps) ==
    IF gaps = <<>> THEN from = Len(s)
    ELSE IF Len(gaps) = 1
    THEN /\ from + Len(gaps[1]) <= Len(s)
         /\ HasAt(s, Len(s) - Len(gaps[1]), gaps[1])
    ELSE \E a \in from..Len(s) :
            /\ HasAt(s, a, gaps[1])
            /\ FitsFrom(s, a + Len(gaps[1]), Tail(gaps))

\* s is G0 X1 G1 ... Xn Gn: every piece of gaps is in s, unchanged and in order.
Fits(s, gaps) ==
    /\ HasAt(s, 0, gaps[1])
    /\ FitsFrom(s, Len(gaps[1]), Tail(gaps))

-----------------------------------------------------------------------------
(* The claims.                                                             *)

\* C1: multi-edit correctness.  When the EditStruct calls made so far replace
\* the types of two or more members and some replacement text differs in
\* length from the type text it replaces, the buffer is the original with
\* each member's span, in original coordinates, replaced by its text.
C1_MultiEditCorrect ==
    (/\ ~crashed
     /\ OnlyEditStructCalls
     /\ OnePerSpan(FinalRequests)
     /\ Cardinality(FinalRequests) >= 2
     /\ \E r \in FinalRequests : Len(r.text) # r.end - r.start)
        => ed.src = SpliceAll(orig, FinalRequests)

\* C2: byte-exact preservation.  After any EditStruct calls, every byte of
\* the original outside the spans edited is in the buffer, unchanged and in
\* the same order: the buffer is the original's pieces between the edited
\* spans with some text in place of each span.
C2_OutsideBytesPreserved ==
    (~crashed /\ OnlyEditStructCalls /\ OnePerSpan(FinalRequests))
        => Fits(ed.src, Gaps(orig, FinalRequests, 0))

\* The last call made on the Editor.
Last == hist[Len(hist)]

\* C3: no-op edit.  An EditStruct call that addresses a member and asks, for
\* every member it addresses, for the canonical text of the member's parsed
\* type leaves the buffer byte-identical and returns modified = FALSE, also
\* when the type is written with inner blanks in the source.
C3_NoOpEdit ==
    (/\ hist # <<>>
     /\ Last.op = "EditStruct"
     /\ Addressed(Last) # {}
     /\ Requests(Last) = {})
        => (ed.src = Last.before /\ ~Last.modified /\ ~Last.err /\ ~crashed)

\* C3 happens: the member M, written `map[ string ]int` in the source, was
\* asked to become `map[string]int`, and nothing changed.
C3_Witness ==
    /\ hist # <<>>
    /\ Last.op = "EditStruct"
    /\ Requests(Last) = {}
    /\ \E s \in Addressed(Last) :
        /\ n_M \in s.names
        /\ Last.arg[n_M] = s.canon
        /\ Slice(orig, s.start, s.end) # s.canon
    /\ ed.src = Last.before
    /\ ~Last.modified

\* C4: no match is not an error.  An EditStruct call that addresses no member
\* (no declaration of that name, no member of that name in it, or the name
\* declares a type that is not a struct) returns (false, nil) and leaves the
\* buffer byte-identical.
C4_NoMatchNoError ==
    (/\ hist # <<>>
     /\ Last.op = "EditStruct"
     /\ Addressed(Last) = {})
        => (ed.src = Last.before /\ ~Last.modified /\ ~Last.err /\ ~crashed)

\* The names of the file's type declarations, and of those that are structs.
TypeNames(file) ==
    {file.Decls[i].Specs[1].Name.Name :
        i \in {i \in 1..Len(file.Decls) : file.Decls[i].Tok = "TYPE"}}
StructTypeNames(file) == {s.struct : s \in Sites(file)}

\* C4 happens: the first call named a type that is not a struct, the second a
\* struct of the file with a member name it does not have; neither changed
\* the buffer.
C4_Witness ==
    /\ Len(hist) = 2
    /\ hist[1].op = "EditStruct" /\ hist[2].op = "EditStruct"
    /\ hist[1].name \in TypeNames(ed.file) \ StructTypeNames(ed.file)
    /\ hist[2].name \in StructTypeNames(ed.file)
    /\ Addressed(hist[2]) = {}
    /\ ~hist[1].modified /\ ~hist[2].modified
    /\ ed.src = orig

\* Number of import entries for path in buffer s: occurrences of the quoted path.
EntryCount(s, path) == CountSub(s, Quote(path))

\* C5: import idempotence.  An AddImports call all of whose aliases are
\* already bound (by an import of the file or by an earlier call, to whatever
\* path) leaves the buffer byte-identical; and of two successive AddImports
\* calls with the same map, the second changes nothing, so that each path
\* the first call added has exactly one entry more than before the first.
C5_ImportIdempotence ==
    \A k \in 1..Len(hist) :
        hist[k].op = "AddImports" =>
            /\ DOMAIN hist[k].arg \subseteq hist[k].bound
                => (After(k) = hist[k].before /\ ~hist[k].err)
            /\ (k > 1 /\ hist[k - 1].op = "AddImports" /\ hist[k - 1].arg = hist[k].arg)
                => /\ After(k) = hist[k].before
                   /\ \A a \in DOMAIN hist[k].arg \ hist[k - 1].bound :
                        EntryCount(After(k), hist[k].arg[a])
                            = EntryCount(hist[k - 1].before, hist[k].arg[a]) + 1

\* C5 happens: two AddImports calls with the same map on a fresh Editor, the
\* first of which added an entry for a path the file did not import.
C5_Witness ==
    /\ Len(hist) = 2
    /\ hist[1].op = "AddImports" /\ hist[2].op = "AddImports"
    /\ hist[1].arg = hist[2].arg
    /\ \E a \in DOMAIN hist[1].arg \ hist[1].bound :
        /\ EntryCount(orig, hist[1].arg[a]) = 0
        /\ EntryCount(ed.src, hist[1].arg[a]) = 1

\* An import entry as written in a file: `"path"` or `name "path"`.
EntryText(imp) ==
    (IF imp.Name = <<>> THEN <<>> ELSE imp.Name \o <<SP>>) \o imp.Path.Value

\* The text of a block-form import statement with these entries.
BlockText(entries) ==
    kwImportWord \o <<SP, "(">>
        \o Cat([i \in 1..Len(entries) |-> <<NL, TAB>> \o entries[i]])
        \o <<NL, ")">>

ImportDeclCount(file) ==
    Cardinality({i \in 1..Len(file.Decls) : file.Decls[i].Tok = "IMPORT"})

\* C6: import-state transitions.  One AddImports call with exactly one new
\* required import on a freshly parsed file with at most one import statement
\* leaves exactly one import statement, in block form, holding the file's
\* original entries (with their aliases) in their order and then the new one.
C6_ImportTransitions ==
    (/\ Len(hist) = 1
     /\ Last.op = "AddImports"
     /\ Cardinality(DOMAIN Last.arg) = 1
     /\ DOMAIN Last.arg \cap Last.bound = {}
     /\ ImportDeclCount(ed.file) <= 1)
        => LET a == CHOOSE a \in DOMAIN Last.arg : TRUE
               entries == [i \in 1..Len(ed.file.Imports) |-> EntryText(ed.file.Imports[i])]
                            \o <<Quote(Last.arg[a])>>
           IN  /\ ~Last.err /\ ~crashed
               /\ CountSub(ed.src, BlockText(entries)) = 1
               /\ CountSub(ed.src, kwImportWord) = 1

\* C6 happens: one new import was added to a file whose block import has an
\* aliased entry.
C6_Witness ==
    /\ Len(hist) = 1
    /\ Last.op = "AddImports"
    /\ Cardinality(DOMAIN Last.arg) = 1
    /\ DOMAIN Last.arg \cap Last.bound = {}
    /\ Len(ed.file.Imports) = 2
    /\ \E i \in 1..2 : ed.file.Imports[i].Name # <<>>
    /\ ed.src # orig

\* The import shape of buffer s: 0 Absent, 1 Single, 2 Block.
Shape(s) ==
    IF CountSub(s, kwImportWord) = 0 THEN 0
    ELSE IF CountSub(s, kwImportWord \o <<SP, "(">>) = 0 THEN 1
    ELSE 2

\* Buffer s holds exactly one import statement, in block form: one `import`,
\* followed by `(`, whose closing parenthesis ends its line, and every quoted
\* path of s lies inside the parentheses.
OneBlockImport(s) ==
    /\ CountSub(s, kwImportWord) = 1
    /\ \E i \in 0..Len(s) :
        /\ HasAt(s, i, kwImportWord \o <<SP, "(">>)
        /\ \E j \in (i + 1)..Len(s) :
            /\ s[j] = ")"
            /\ \A m \in (i + 1)..(j - 1) : s[m] # ")"
            /\ j < Len(s) /\ s[j + 1] = NL
            /\ \A m \in 1..Len(s) : s[m] = DQ => (i < m /\ m < j)

\* C7: import shape state machine.  Over AddImports calls on one Editor whose
\* file starts with at most one import statement, the shape changes only on
\* a call with a non-empty delta, never moves backwards along Absent, Single,
\* Block, and once the buffer holds a block-form import every later call
\* leaves exactly one import statement, in block form.
C7_ImportShape ==
    (~crashed /\ OnlyAddImportsCalls /\ ImportDeclCount(ed.file) <= 1) =>
        \A k \in 1..Len(hist) :
            /\ Shape(After(k)) # Shape(hist[k].before)
                => ~(DOMAIN hist[k].arg \subseteq hist[k].bound)
            /\ Shape(After(k)) >= Shape(hist[k].before)
            /\ Shape(hist[k].before) = 2 => OneBlockImport(After(k))

\* C8: SourceUnit invariant.  After every EditStruct call the buffer is the
\* original text with some subset of the replacements asked for so far
\* applied, each exactly at its member's span.
C8_BufferIsSomeVersion ==
    (~crashed /\ OnlyEditStructCalls) =>
        \E E \in SUBSET AllRequests :
            /\ OnePerSpan(E)
            /\ ed.src = SpliceAll(orig, E)

\* The declarations of the file the Editor parsed.
OrigDecls == CHOOSE f \in Files : FileText(f) = orig

\* The names of the type declarations of a file, in declaration order.
TypeDeclNames(decls) ==
    LET types == SelectSeq(decls, LAMBDA d : d.d \in {"struct", "type"})
    IN  [i \in 1..Len(types) |-> types[i].name]

\* C12: StructNames returns the names of the file's type declarations in
\* declaration order, skipping functions and constants, and the same
\* sequence on every call, also after EditStruct or AddImports changed the
\* buffer.
C12_StructNamesStable ==
    \A k \in 1..Len(hist) :
        hist[k].op = "StructNames" =>
            /\ hist[k].names = TypeDeclNames(OrigDecls)
            /\ \A m \in 1..Len(hist) :
                hist[m].op = "StructNames" => hist[m].names = hist[k].names

\* C12 happens: StructNames was called after a call that changed the buffer,
\* on a file that declares a function and a type that is not a struct.
C12_Witness ==
    /\ Len(hist) = 2
    /\ hist[1].op \in {"EditStruct", "AddImports"}
    /\ hist[1].before # hist[2].before
    /\ hist[2].op = "StructNames"
    /\ Len(hist[2].names) = 2
    /\ \E i \in 1..Len(OrigDecls) : OrigDecls[i].d = "func"
    /\ \E i \in 1..Len(OrigDecls) : OrigDecls[i].d = "type"

\* The lines of the embedded members of the file the Editor parsed.
EmbeddedLines ==
    UNION {{FieldText(OrigDecls[i].fields[k]) :
                k \in {k \in 1..Len(OrigDecls[i].fields) :
                        OrigDecls[i].fields[k].names = <<>>}} :
            i \in {i \in 1..Len(OrigDecls) : OrigDecls[i].d = "struct"}}

\* The keys of call h's edits map that are the type name of an embedded
\* member of the struct h names.
EmbeddedKeys(h) ==
    UNION {{TypeSrc(OrigDecls[i].fields[k].type, FALSE) :
                k \in {k \in 1..Len(OrigDecls[i].fields) :
                        OrigDecls[i].fields[k].names = <<>>}} :
            i \in {i \in 1..Len(OrigDecls) :
                    OrigDecls[i].d = "struct" /\ OrigDecls[i].name = h.name}}
        \cap DOMAIN h.arg

\* C13: embedded members are never rewritten.  No EditStruct call changes a
\* byte of an embedded member (its line is in the buffer after the call as
\* it was before); a call whose keys match only embedded members returns
\* modified = FALSE and leaves the buffer unchanged; and a call that has such
\* a key still edits the named members it asks to change.
C13_EmbeddedUntouched ==
    \A k \in 1..Len(hist) :
        (hist[k].op = "EditStruct" /\ (k = Len(hist) => ~crashed)) =>
            /\ \A line \in EmbeddedLines :
                CountSub(After(k), line) = CountSub(hist[k].before, line)
            /\ (EmbeddedKeys(hist[k]) # {} /\ Addressed(hist[k]) = {})
                => (After(k) = hist[k].before /\ ~hist[k].modified)
            /\ (EmbeddedKeys(hist[k]) # {} /\ Requests(hist[k]) # {})
                => hist[k].modified

\* Member n of site s is in buffer b with the type text it has in the
\* original: written alone (`n T`) or first of two names (`n, m T`).
KeepsType(b, s, n) ==
    LET T == Slice(orig, s.start, s.end)
    IN  \E p \in {n \o <<SP>> \o T}
                    \cup {n \o <<",", SP>> \o m \o <<SP>> \o T : m \in s.names \ {n}} :
            CountSub(b, p) >= 1

\* C14: one replacement per span.  For an EditStruct call on the buffer as
\* parsed: every member of the named struct whose name is not a key of the
\* edits map keeps its type text, also when it shares a field declaration
\* (`A, B T`) with a member that is a key; and when the call addresses one
\* field declaration, the buffer afterwards is the buffer before with at most
\* one replacement, of that declaration's type span by one of the texts
\* asked for it.
C14_OneReplacementPerSpan ==
    \A k \in 1..Len(hist) :
        (/\ hist[k].op = "EditStruct"
         /\ hist[k].before = orig
         /\ (k = Len(hist) => ~crashed)) =>
            \A s \in {x \in Sites(ed.file) : x.struct = hist[k].name} :
                /\ \A n \in s.names \ DOMAIN hist[k].arg : KeepsType(After(k), s, n)
                /\ Addressed(hist[k]) = {s} =>
                    \/ After(k) = hist[k].before
                    \/ \E n \in s.names \cap DOMAIN hist[k].arg :
                        After(k) = Slice(orig, 0, s.start) \o hist[k].arg[n]
                                        \o Slice(orig, s.end, Len(orig))

\* Buffer a is buffer b with the bytes from offset i to offset j replaced by
\* some text: the bytes before i and the bytes from j on are unchanged.
OnlyReplaced(b, a, i, j) ==
    /\ i <= j /\ j <= Len(b)
    /\ Len(a) >= Len(b) - (j - i)
    /\ Slice(a, 0, i) = Slice(b, 0, i)
    /\ Slice(a, Len(a) - (Len(b) - j), Len(a)) = Slice(b, j, Len(b))

\* Offset of the first occurrence of byte c in b at or after offset i
\* (Len(b) when there is none).
FirstAt(b, i, c) ==
    IF \E m \in (i + 1)..Len(b) : b[m] = c
    THEN (CHOOSE m \in (i + 1)..Len(b) :
            b[m] = c /\ \A x \in (i + 1)..(m - 1) : b[x] # c) - 1
    ELSE Len(b)

\* Offset of the import keyword of the first import statement of b.
ImportAt(b) ==
    CHOOSE i \in 0..Len(b) :
        HasAt(b, i, kwImportWord) /\ \A x \in 0..(i - 1) : ~HasAt(b, x, kwImportWord)

\* Start offset of the first top-level declaration of a file without
\* imports (the end of the file when it declares nothing).
FirstDeclAt(b) == IF OrigDecls = <<>> THEN Len(b) ELSE DeclOff(OrigDecls, 1)

\* C16: AddImports frame.  A call with an empty delta changes no byte.  A
\* call with a non-empty delta changes bytes only inside the import region:
\* with no import in the buffer it is an insertion at the start of the first
\* top-level declaration (the end of the file if there is none); with a
\* single import only the span of that statement is replaced; with a block
\* import only the region from the opening to the closing parenthesis.
C16_AddImportsFrame ==
    \A k \in 1..Len(hist) :
        (hist[k].op = "AddImports" /\ (k = Len(hist) => ~crashed)) =>
            LET b == hist[k].before
                a == After(k)
            IN  IF DOMAIN hist[k].arg \subseteq hist[k].bound THEN a = b
                ELSE CASE Shape(b) = 0 ->
                            /\ OnlyReplaced(b, a, FirstDeclAt(b), FirstDeclAt(b))
                            /\ Len(a) > Len(b)
                       [] Shape(b) = 1 ->
                            OnlyReplaced(b, a, ImportAt(b), FirstAt(b, ImportAt(b), NL))
                       [] OTHER ->
                            OnlyReplaced(b, a, FirstAt(b, ImportAt(b), "("),
                                         FirstAt(b, ImportAt(b), ")") + 1)

\* C16 happens: an import was inserted into a file without imports whose
\* first declaration is a constant, after an EditStruct call had changed
\* the length of the buffer.
C16_Witness ==
    /\ Len(hist) = 2
    /\ hist[1].op = "EditStruct"
    /\ Len(hist[2].before) # Len(orig)
    /\ hist[2].op = "AddImports"
    /\ OrigDecls # <<>> /\ OrigDecls[1].d = "const"
    /\ Shape(hist[2].before) = 0
    /\ Shape(ed.src) = 2
    /\ ~crashed

\* Call k is the first AddImports call on the Editor.
FirstAddImports(k) ==
    /\ hist[k].op = "AddImports"
    /\ \A m \in 1..(k - 1) : hist[m].op # "AddImports"

\* The delta of AddImports call h in the order its map was iterated: the
\* aliases that were not bound before the call.
DeltaOrder(h) == SelectSeq(h.order, LAMBDA a : a \notin h.bound)

\* The buffer b with its import statement (none, single or block) rewritten
\* as one block holding these entries.
WithImportBlock(b, entries) ==
    CASE Shape(b) = 0 ->
            Slice(b, 0, FirstDeclAt(b)) \o BlockText(entries) \o <<NL, NL>>
                \o Slice(b, FirstDeclAt(b), Len(b))
      [] Shape(b) = 1 ->
            Slice(b, 0, ImportAt(b)) \o BlockText(entries)
                \o Slice(b, FirstAt(b, ImportAt(b), NL), Len(b))
      [] OTHER ->
            Slice(b, 0, ImportAt(b)) \o BlockText(entries)
                \o Slice(b, FirstAt(b, ImportAt(b), ")") + 1, Len(b))

\* C17: delta ordering.  For the first AddImports call on an Editor with a
\* delta of two or more entries, whatever the iteration order of the map:
\* the buffer afterwards is the buffer before with one import block that
\* holds the file's original entries in their order and then the delta
\* entries in iteration order, each exactly once; so two runs on the same
\* input differ at most by a permutation of the delta entries.
C17_DeltaOrdering ==
    \A k \in 1..Len(hist) :
        (/\ FirstAddImports(k)
         /\ Len(DeltaOrder(hist[k])) >= 2
         /\ (k = Len(hist) => ~crashed)) =>
            LET delta == DeltaOrder(hist[k])
                entries ==
                    [i \in 1..Len(ed.file.Imports) |-> EntryText(ed.file.Imports[i])]
                        \o [i \in 1..Len(delta) |-> Quote(hist[k].arg[delta[i]])]
            IN  /\ After(k) = WithImportBlock(hist[k].before, entries)
                /\ \A i \in 1..Len(delta) :
                    EntryCount(After(k), hist[k].arg[delta[i]])
                        = EntryCount(hist[k].before, hist[k].arg[delta[i]]) + 1

\* C17 happens: two imports were added to a block of two entries, the map
\* iterated with "time" before "os".
C17_Witness ==
    /\ Len(hist) = 1
    /\ hist[1].op = "AddImports"
    /\ DeltaOrder(hist[1]) = <<p_time, p_os>>
    /\ Len(ed.file.Imports) = 2
    /\ ed.src # orig
    /\ ~crashed

\* End offset of the import region of buffer b: the insertion point when it
\* has no import, else the end of its import statement.
ImportRegionEnd(b) ==
    CASE Shape(b) = 0 -> FirstDeclAt(b)
      [] Shape(b) = 1 -> FirstAt(b, ImportAt(b), NL)
      [] OTHER -> FirstAt(b, ImportAt(b), ")") + 1

\* C18: imports after edits.  When the first AddImports call on an Editor
\* comes after EditStruct calls that changed the buffer's length and has a
\* non-empty delta: the import region of the original lies at or before the
\* start of every member's type span and is unchanged in the buffer before
\* the call, so the offsets computed at the parse are those of the current
\* buffer; the buffer afterwards is the buffer before with its import
\* statement rewritten as one block of the original and the new entries;
\* everything behind the import region, the edited type texts included, is
\* the same bytes in the same order as before the call.
C18_ImportsAfterEdits ==
    \A k \in 2..Len(hist) :
        (/\ FirstAddImports(k)
         /\ Len(hist[k].before) # Len(orig)
         /\ DeltaOrder(hist[k]) # <<>>
         /\ (k = Len(hist) => ~crashed)) =>
            LET b == hist[k].before
                a == After(k)
                end == ImportRegionEnd(orig)
                delta == DeltaOrder(hist[k])
                entries ==
                    [i \in 1..Len(ed.file.Imports) |-> EntryText(ed.file.Imports[i])]
                        \o [i \in 1..Len(delta) |-> Quote(hist[k].arg[delta[i]])]
            IN  /\ \A s \in Sites(ed.file) : end <= s.start
                /\ ImportRegionEnd(b) = end
                /\ Slice(b, 0, end) = Slice(orig, 0, end)
                /\ a = WithImportBlock(b, entries)
                /\ Slice(a, Len(a) - (Len(b) - end), Len(a)) = Slice(b, end, Len(b))
                /\ \A r \in Requests(hist[k - 1]) :
                    CountSub(a, r.text) >= CountSub(b, r.text)

\* C18 happens: an EditStruct call made a member's type text longer, then
\* AddImports turned the file's single import into a block.
C18_Witness ==
    /\ Len(hist) = 2
    /\ hist[1].op = "EditStruct"
    /\ hist[1].modified
    /\ Len(hist[2].before) > Len(orig)
    /\ hist[2].op = "AddImports"
    /\ DeltaOrder(hist[2]) # <<>>
    /\ Shape(orig) = 1
    /\ Shape(ed.src) = 2
    /\ ~crashed

\* C19: no wrongful suppression.  For an EditStruct call on the buffer as
\* parsed that addresses exactly one field declaration, of a single name:
\* when the text asked for differs from the canonical text of the member's
\* source type (for `[4]int` too), the call returns modified = TRUE and the
\* buffer is the original with the member's type span replaced by that text.
C19_NoWrongfulSuppression ==
    \A k \in 1..Len(hist) :
        (/\ hist[k].op = "EditStruct"
         /\ hist[k].before = orig
         /\ (k = Len(hist) => ~crashed)) =>
            \A s \in Addressed(hist[k]) :
                \A n \in s.names \cap DOMAIN hist[k].arg :
                    (/\ Addressed(hist[k]) = {s}
                     /\ s.names = {n}
                     /\ hist[k].arg[n] # s.canon) =>
                        /\ hist[k].modified
                        /\ After(k) = Slice(orig, 0, s.start) \o hist[k].arg[n]
                                        \o Slice(orig, s.end, Len(orig))

\* Buffer b has an import entry that binds alias to path: `alias "path"`,
\* or the unnamed entry `"path"` when alias is the last segment of path.
Binds(b, alias, path) ==
    \/ \E lead \in {<<TAB>>, <<SP>>} :
        CountSub(b, lead \o alias \o <<SP>> \o Quote(path)) >= 1
    \/ /\ alias = LastSegment(path)
       /\ \E lead \in {<<TAB>>, <<SP>>} : CountSub(b, lead \o Quote(path)) >= 1

\* C20: required aliases are bound.  After AddImports(required) returns nil
\* on a freshly parsed file, every alias of required either was bound before
\* the call or is bound to its path by an import entry of the buffer, also
\* when the alias is not the last segment of the path.
C20_RequiredAliasesBound ==
    (/\ hist # <<>>
     /\ hist[1].op = "AddImports"
     /\ ~hist[1].err
     /\ (Len(hist) = 1 => ~crashed)) =>
        \A alias \in DOMAIN hist[1].arg :
            \/ alias \in hist[1].bound
            \/ Binds(After(1), alias, hist[1].arg[alias])

\* The aliases and paths that the files and the required maps use.
KnownAliases == {p_fmt, p_time, p_os, a_u}
KnownPaths == {p_fmt, p_xfmt, p_time, p_os, p_xuuid}

\* Every alias of call h's map is the last segment of its path, so that the
\* entry written for it binds it.
PlainAliases(h) == \A a \in DOMAIN h.arg : a = LastSegment(h.arg[a])

\* C21: recorded imports match the buffer.  After any sequence of AddImports
\* calls on one Editor (each alias the last segment of its path): an alias
\* is recorded in importManager.existing exactly when an import entry of the
\* buffer binds it to the recorded path, and each path added by a call has
\* exactly one entry more in the buffer than in the original, also after a
\* later call that added a different alias.
C21_RecordedMatchesBuffer ==
    (/\ ~crashed
     /\ OnlyAddImportsCalls
     /\ \A k \in 1..Len(hist) : PlainAliases(hist[k]) /\ ~hist[k].err) =>
        /\ \A a \in DOMAIN ed.imports.existing :
            Binds(ed.src, a, ed.imports.existing[a])
        /\ \A a \in KnownAliases : \A p \in KnownPaths :
            Binds(ed.src, a, p) =>
                (a \in DOMAIN ed.imports.existing /\ ed.imports.existing[a] = p)
        /\ \A k \in 1..Len(hist) : \A a \in DOMAIN hist[k].arg \ hist[k].bound :
            EntryCount(ed.src, hist[k].arg[a]) = EntryCount(orig, hist[k].arg[a]) + 1

-----------------------------------------------------------------------------
(* Claims about processFile and main (specification SpecMain).             *)

\* The bytes of file f before main ran.
InitialBytes(f) ==
    IF f.valid THEN FileText(f.decls) ELSE IF f.readable THEN kwBadSyntax ELSE <<>>

\* The names declared by the type declarations of file f.
DeclaredNames(f) ==
    {f.decls[i].name : i \in {i \in 1..Len(f.decls) : f.decls[i].d \in {"struct", "type"}}}

\* The import paths inferred from the edits configured for declarations of f.
InferredFor(f) ==
    UNION {{Imports(cfg[c])[a] : a \in DOMAIN Imports(cfg[c])} :
            c \in {c \in 1..Len(cfg) : cfg[c].Type \in DeclaredNames(f)}}

\* The paths that have more entries in file i now than before main ran.
AddedPaths(i) ==
    {p \in {requiredImports(cfg)[a] : a \in DOMAIN requiredImports(cfg)} :
        EntryCount(disk[i].bytes, p) > EntryCount(InitialBytes(disk[i]), p)}

\* C9: minimal imports per file.  The import entries processFile adds to a
\* file it modifies are only those inferred from the new type texts of edits
\* configured for declarations that occur in that file; with no qualified
\* type among them, no import is added.
C9_MinimalImports ==
    \A i \in 1..Len(log) :
        log[i].written => AddedPaths(i) \subseteq InferredFor(disk[i])

\* C10: failure isolation between files.  When main has ended, a file whose
\* processing failed is unwritten and reported, and every other file of the
\* sequence, before or after it, has been processed and holds its result.
C10_FailureIsolation ==
    pc \in {"done", "exit1"} =>
        \A i \in 1..Len(disk) :
            /\ i <= Len(log)
            /\ log[i].err # "" => (i \in stderr /\ disk[i].bytes = InitialBytes(disk[i]))
            /\ log[i].err = "" => disk[i].bytes = log[i].bytes

\* C10 as amended: a file whose processing fails is unwritten and reported
\* and is the last file main processes (main exits with status 1); the files
\* before it keep what was written, the files after it are left as they were.
C10_StopsAtFirstFailure ==
    /\ \A i \in 1..Len(log) :
        /\ log[i].err # "" =>
            /\ i = Len(log)
            /\ i \in stderr
            /\ pc = "exit1"
            /\ ~log[i].written
            /\ disk[i].bytes = InitialBytes(disk[i])
        /\ log[i].err = "" => (i \notin stderr /\ disk[i].bytes = log[i].bytes)
    /\ \A i \in (Len(log) + 1)..Len(disk) : disk[i].bytes = InitialBytes(disk[i])
    /\ pc = "exit1" => (log # <<>> /\ log[Len(log)].err # "")

\* C10 happens: the first file was rewritten, the second failed to parse, and
\* the third, which the configuration would change, was left alone.
C10_Witness ==
    /\ pc = "exit1"
    /\ Len(disk) = 3
    /\ Len(log) = 2
    /\ log[1].written /\ disk[1].bytes # InitialBytes(disk[1])
    /\ log[2].err = "parse"
    /\ \E order \in Orders(DOMAIN requiredImports(cfg)) :
        processFile(disk[3], cfg, order).written
    /\ disk[3].bytes = InitialBytes(disk[3])

-----------------------------------------------------------------------------
(* Claims about type texts (specification SpecRerun).                      *)

\* The text before the first "." of t once at most one leading "*" is
\* removed; <<>> when t holds no ".".
Qualifier(t) ==
    LET u == IF t # <<>> /\ t[1] = "*" THEN SubSeq(t, 2, Len(t)) ELSE t
        dots == {i \in 1..Len(u) : u[i] = "."}
    IN  IF dots = {} THEN <<>>
        ELSE SubSeq(u, 1, (CHOOSE i \in dots : \A j \in dots : i <= j) - 1)

\* C11: qualified-type import inference.  For every map of type texts, the
\* imports inferred by RequiredImports and by TypeConfig.Imports are the
\* same: one entry per distinct qualifier (the text before the first "."
\* after removing at most one leading "*"), alias and path both equal to
\* it, and no entry for a text without ".".
C11_ImportInference ==
    \A k \in 1..Len(hist) :
        hist[k].op = "RequiredImports" =>
            LET quals == {Qualifier(hist[k].arg[f]) : f \in DOMAIN hist[k].arg} \ {<<>>}
                expected == [q \in quals |-> q]
            IN  /\ hist[k].editor = expected
                /\ hist[k].config = expected

\* C11 happens: imports were inferred for two members, one a pointer to a
\* qualified type, and each text gave its own entry.
C11_Witness ==
    /\ hist # <<>>
    /\ hist[1].op = "RequiredImports"
    /\ Cardinality(DOMAIN hist[1].arg) = 2
    /\ \E f \in DOMAIN hist[1].arg : hist[1].arg[f][1] = "*"
    /\ Cardinality(DOMAIN hist[1].editor) = 2
    /\ hist[1].config = hist[1].editor

\* The type expression of the member named n of struct structName in file.
MemberTypes(file, structName, n) ==
    UNION {UNION {{file.Decls[i].Specs[j].Type.Fields.List[k].Type :
                        k \in {k \in 1..Len(file.Decls[i].Specs[j].Type.Fields.List) :
                                \E m \in 1..Len(file.Decls[i].Specs[j].Type.Fields.List[k].Names) :
                                    file.Decls[i].Specs[j].Type.Fields.List[k].Names[m].Name = n}} :
                    j \in {j \in 1..Len(file.Decls[i].Specs) :
                            /\ file.Decls[i].Specs[j].Type.kind = "StructType"
                            /\ file.Decls[i].Specs[j].Name.Name = structName}} :
            i \in {i \in 1..Len(file.Decls) : file.Decls[i].Tok = "TYPE"}}

\* C15: render round-trip.  For every type text t of the accepted syntax
\* configured for one member: once EditStruct has spliced t into the member
\* and the file written is parsed again, the parse succeeds and typeString
\* renders the member's type as exactly t; and EditStruct with the same edits
\* on the new Editor returns modified = FALSE and leaves the buffer as it is.
C15_RenderRoundTrip ==
    (/\ Len(hist) >= 3
     /\ hist[3].op = "ParseFile"
     /\ Cardinality(DOMAIN cfg[1].Fields) = 1) =>
        /\ ~hist[3].err
        /\ \A n \in DOMAIN cfg[1].Fields :
            /\ MemberTypes(ed.file, cfg[1].Type, n) # {}
            /\ \A T \in MemberTypes(ed.file, cfg[1].Type, n) :
                typeString(T) = cfg[1].Fields[n]
        /\ Len(hist) = 4 =>
            (~hist[4].modified /\ ~hist[4].err /\ ed.src = hist[4].before /\ ~crashed)

\* C15 happens: a map type with a pointer inside was spliced into the first
\* member, the file was parsed again, and the second EditStruct changed
\* nothing.
C15_Witness ==
    /\ Len(hist) = 4
    /\ DOMAIN cfg[1].Fields = {n_ID}
    /\ \E v \in TypeExprs :
        cfg[1].Fields[n_ID] = TypeSrc(MapType(Ident(t_int), StarExpr(v)), FALSE)
    /\ hist[2].modified
    /\ hist[2].before # hist[3].before
    /\ ~hist[3].err
    /\ ~hist[4].modified
    /\ ed.src = hist[3].before

====
